---- MODULE Spec2Model ----
(***************************************************************************)
(* Model of rekordbox_path_updater.py: the location codec, the worker      *)
(* sizing policy, the file locator, the batch verifier (thread pool with a *)
(* SIGALRM deadline, or a sequential loop) and update_rekordbox_xml.       *)
(*                                                                         *)
(* Strings are sequences of one-character strings, so that prefix tests,   *)
(* percent-escaping, basename and path joins are computed, not assumed.    *)
(***************************************************************************)
EXTENDS Integers, Sequences, FiniteSets, TLC

(* ------------------------------ bounds --------------------------------- *)
\* longest catalog (number of TRACK elements) explored
MaxTracks == 2
\* longest filename explored by the codec round trip
MaxNameLen == 3
\* largest os.cpu_count() explored by the worker sizing policy
MaxCpu == 40
\* user overrides explored: -MaxOverride .. 64 + MaxOverride
MaxOverride == 3

(* ------------------------- characters and strings ---------------------- *)
\* chr() for code points 0..127; control characters and the backquote are
\* named tokens
Ascii ==
    << "0x00", "0x01", "0x02", "0x03", "0x04", "0x05", "0x06", "0x07",
       "0x08", "0x09", "0x0A", "0x0B", "0x0C", "0x0D", "0x0E", "0x0F",
       "0x10", "0x11", "0x12", "0x13", "0x14", "0x15", "0x16", "0x17",
       "0x18", "0x19", "0x1A", "0x1B", "0x1C", "0x1D", "0x1E", "0x1F",
       " ", "!", "\"", "#", "$", "%", "&", "'",
       "(", ")", "*", "+", ",", "-", ".", "/",
       "0", "1", "2", "3", "4", "5", "6", "7",
       "8", "9", ":", ";", "<", "=", ">", "?",
       "@", "A", "B", "C", "D", "E", "F", "G",
       "H", "I", "J", "K", "L", "M", "N", "O",
       "P", "Q", "R", "S", "T", "U", "V", "W",
       "X", "Y", "Z", "[", "\\", "]", "^", "_",
       "0x60", "a", "b", "c", "d", "e", "f", "g",
       "h", "i", "j", "k", "l", "m", "n", "o",
       "p", "q", "r", "s", "t", "u", "v", "w",
       "x", "y", "z", "{", "|", "}", "~", "0x7F" >>

\* the character U+FFFD that errors='replace' decoding yields for a byte
\* that is not valid UTF-8 (every lone byte >= 0x80)
ReplacementChar == "U+FFFD"

Chr(n) == IF n < 128 THEN Ascii[n + 1] ELSE ReplacementChar

Ord(c) == (CHOOSE i \in 1..128 : Ascii[i] = c) - 1

HexDigits == << "0", "1", "2", "3", "4", "5", "6", "7",
                "8", "9", "A", "B", "C", "D", "E", "F" >>

LowerHex == << "0", "1", "2", "3", "4", "5", "6", "7",
               "8", "9", "a", "b", "c", "d", "e", "f" >>

IsHex(c) == \E i \in 1..16 : HexDigits[i] = c \/ LowerHex[i] = c

HexVal(c) == (CHOOSE i \in 1..16 : HexDigits[i] = c \/ LowerHex[i] = c) - 1

\* urllib.parse.quote leaves these and '/' alone (its default safe='/')
AlwaysSafe ==
    { Ascii[i] : i \in (49..58) \cup (66..91) \cup (98..123) }
        \cup { "_", ".", "-", "~" }

StartsWith(s, p) == Len(s) >= Len(p) /\ SubSeq(s, 1, Len(p)) = p

EndsWith(s, c) == Len(s) > 0 /\ s[Len(s)] = c

\* quote with '%' treated as safe: an escape-looking filename is not escaped
RECURSIVE quote_percent_safe(_)
quote_percent_safe(s) ==
    IF s = << >> THEN << >>
    ELSE LET c == Head(s) IN
         (IF c \in AlwaysSafe \/ c = "/" \/ c = "%"
            THEN << c >>
            ELSE << "%", HexDigits[(Ord(c) \div 16) + 1],
                         HexDigits[(Ord(c) % 16) + 1] >>)
         \o quote_percent_safe(Tail(s))

\* urllib.parse.quote(s): every character outside AlwaysSafe and '/' becomes
\* '%' followed by two upper-case hex digits
RECURSIVE quote(_)
quote(s) ==
    IF s = << >> THEN << >>
    ELSE LET c == Head(s) IN
         (IF c \in AlwaysSafe \/ c = "/"
            THEN << c >>
            ELSE << "%", HexDigits[(Ord(c) \div 16) + 1],
                         HexDigits[(Ord(c) % 16) + 1] >>)
         \o quote(Tail(s))

\* urllib.parse.unquote(s): '%' followed by two hex digits is decoded, any
\* other '%' is kept literally
RECURSIVE unquote(_)
unquote(s) ==
    IF s = << >> THEN << >>
    ELSE IF Head(s) = "%" /\ Len(s) >= 3 /\ IsHex(s[2]) /\ IsHex(s[3])
         THEN << Chr(16 * HexVal(s[2]) + HexVal(s[3])) >>
                  \o unquote(SubSeq(s, 4, Len(s)))
         ELSE << Head(s) >> \o unquote(Tail(s))

\* index of the last '/' in p, 0 when there is none (str.rfind + 1)
LastSlash(p) ==
    IF \E i \in 1..Len(p) : p[i] = "/"
      THEN CHOOSE i \in 1..Len(p) :
              p[i] = "/" /\ \A j \in (i + 1)..Len(p) : p[j] # "/"
      ELSE 0

\* os.path.basename (posixpath)
basename(p) == SubSeq(p, LastSlash(p) + 1, Len(p))

\* os.path.join of two parts (posixpath)
path_join(a, b) ==
    IF StartsWith(b, << "/" >>) THEN b
    ELSE IF a = << >> \/ EndsWith(a, "/") THEN a \o b
    ELSE a \o << "/" >> \o b

\* the components of a path, as path resolution sees them: empty components
\* and '.' are dropped (posixpath.normpath; no '..' arises here)
RECURSIVE SplitPath(_, _)
SplitPath(p, cur) ==
    LET flush == IF cur = << >> \/ cur = << "." >> THEN << >> ELSE << cur >> IN
    IF p = << >> THEN flush
    ELSE IF Head(p) = "/" THEN flush \o SplitPath(Tail(p), << >>)
    ELSE SplitPath(Tail(p), Append(cur, Head(p)))

Components(p) == SplitPath(p, << >>)

RECURSIVE JoinWith(_)
JoinWith(cs) ==
    IF cs = << >> THEN << >>
    ELSE IF Len(cs) = 1 THEN cs[1]
    ELSE cs[1] \o << "/" >> \o JoinWith(Tail(cs))

\* os.path.relpath(path, start) for absolute paths
relpath(path, start) ==
    LET pl == Components(path)
        sl == Components(start)
        m  == IF Len(pl) < Len(sl) THEN Len(pl) ELSE Len(sl)
        i  == CHOOSE k \in 0..m :
                 /\ \A j \in 1..k : pl[j] = sl[j]
                 /\ (k < m => pl[k + 1] # sl[k + 1])
        rel == [j \in 1..(Len(sl) - i) |-> << ".", "." >>]
                  \o SubSeq(pl, i + 1, Len(pl))
    IN IF rel = << >> THEN << "." >> ELSE JoinWith(rel)

(* ----------------------------- LocationCodec --------------------------- *)
\* 'file://localhost/'
SchemePrefix ==
    << "f", "i", "l", "e", ":", "/", "/",
       "l", "o", "c", "a", "l", "h", "o", "s", "t", "/" >>

\* the 17 of location_url[17:]
PrefixLen == 17

extract_filename_from_location(location_url) ==
    LET file_path == IF StartsWith(location_url, SchemePrefix)
                       THEN SubSeq(location_url, PrefixLen + 1, Len(location_url))
                       ELSE location_url
    IN basename(unquote(file_path))

\* the root with a trailing separator, as both build_new_location and
\* verify_file_exists normalise it
WithSeparator(new_root_path) ==
    IF EndsWith(new_root_path, "/") THEN new_root_path
    ELSE new_root_path \o << "/" >>

build_new_location(new_root_path, filename) ==
    SchemePrefix \o quote(path_join(WithSeparator(new_root_path), filename))

(* ------------------------------ WorkerSizer ---------------------------- *)
\* max_workers is << >> for None and << n >> for the integer n
None == << >>

Max(a, b) == IF a >= b THEN a ELSE b

Min(a, b) == IF a <= b THEN a ELSE b

WorkerCap == 64

HardMaxWorkers == 32

\* memory_factor is a multiple of 1/MemDen: mem_q / MemDen, at most 2.0
MemDen == 4

\* int(cpu_count * 1.5 * memory_factor), exactly, in integers
optimal_workers_raw(cpu_count, mem_q) ==
    (cpu_count * 3 * mem_q) \div (2 * MemDen)

get_optimal_worker_count(max_workers, cpu_count, mem_q) ==
    IF max_workers # None
      THEN Max(1, Min(max_workers[1], WorkerCap))
      ELSE LET min_workers == Max(2, cpu_count)
               max_w == Min(HardMaxWorkers, cpu_count * 4)
           IN Max(min_workers, Min(optimal_workers_raw(cpu_count, mem_q), max_w))

(* ------------------------------ FileLocator ---------------------------- *)
\* A filesystem snapshot: files is the set of regular files, each the list
\* of the components of its absolute path; order is the order in which
\* os.scandir lists the subdirectories of the search root (os.walk visits
\* them in that order, top-down).  The search root on disk is /r.
DiskRoot == << << "r" >> >>

SubDirs == { << "S" >>, << "T" >> }

NameA == << "a" >>

NameB == << "b", " ", "c" >>

\* a filename no snapshot contains
NameZ == << "z" >>

FsNames == { NameA, NameB }

AllFiles ==
    { DiskRoot \o << n >> : n \in FsNames }
        \cup { DiskRoot \o << d, n >> : d \in SubDirs, n \in FsNames }

ScanOrders == { << << "S" >>, << "T" >> >>, << << "T" >>, << "S" >> >> }

\* error names a lookup whose walk raises: while filename is looked up, the
\* os.walk generator raises instead of yielding directory number at (1 is
\* the root itself); at = 0 is a walk that never raises.  A directory that
\* os.walk skips silently (its default onerror) is a snapshot without the
\* files of that directory.
NoError == [filename |-> << >>, at |-> 0]

Snapshots == [ files : SUBSET AllFiles, order : ScanOrders, error : { NoError } ]

\* os.path.isfile
isfile(snap, path) == Components(path) \in snap.files

\* the names os.walk reports in the files list of directory dirpath
FilesIn(snap, dirpath) ==
    LET dc == Components(dirpath) IN
    { f[Len(f)] : f \in { g \in snap.files :
                            Len(g) = Len(dc) + 1 /\ SubSeq(g, 1, Len(dc)) = dc } }

\* os.walk(top), top-down: top itself, then its subdirectories in scan order
walk(snap, top) ==
    << [root |-> top, files |-> FilesIn(snap, top)] >>
      \o [ i \in 1..Len(snap.order) |->
             [root  |-> path_join(top, snap.order[i]),
              files |-> FilesIn(snap, path_join(top, snap.order[i]))] ]

\* the walk for filename raises before it reaches a directory holding it
WalkRaises(snap, filename, hits) ==
    /\ snap.error.filename = filename
    /\ snap.error.at >= 1
    /\ \A i \in hits : snap.error.at <= i

\* verify_file_exists without the direct lookup: the walk finds everything
verify_file_exists_walk_only(new_root_path, filename, snap) ==
    LET root_path == WithSeparator(new_root_path)
        w == walk(snap, root_path)
        hits == { i \in 1..Len(w) : filename \in w[i].files }
        first == CHOOSE i \in hits : \A j \in hits : i <= j
    IN IF WalkRaises(snap, filename, hits)
         THEN [found |-> FALSE, path |-> None, subdir_count |-> snap.error.at - 1]
       ELSE IF hits # {}
         THEN [found |-> TRUE, path |-> path_join(w[first].root, filename),
               subdir_count |-> first]
       ELSE [found |-> FALSE, path |-> None, subdir_count |-> Len(w)]

\* verify_file_exists without the try around the walk's result: the error is
\* dropped and the search goes on
verify_file_exists_error_ignored(new_root_path, filename, snap) ==
    LET root_path == WithSeparator(new_root_path)
        full_path == path_join(root_path, filename)
        w == walk(snap, root_path)
        hits == { i \in 1..Len(w) : filename \in w[i].files }
        first == CHOOSE i \in hits : \A j \in hits : i <= j
    IN IF isfile(snap, full_path)
         THEN [found |-> TRUE, path |-> full_path, subdir_count |-> 0]
       ELSE IF hits # {}
         THEN [found |-> TRUE, path |-> path_join(w[first].root, filename),
               subdir_count |-> first]
       ELSE [found |-> FALSE, path |-> None, subdir_count |-> Len(w)]

\* verify_file_exists: (found, path), and subdir_count, the number of
\* directories the walk visited (0 when the walk was never started); an
\* exception in the walk is caught and gives (False, None) (lines 140-144)
verify_file_exists(new_root_path, filename, snap) ==
    LET root_path == WithSeparator(new_root_path)
        full_path == path_join(root_path, filename)
        w == walk(snap, root_path)
        hits == { i \in 1..Len(w) : filename \in w[i].files }
        first == CHOOSE i \in hits : \A j \in hits : i <= j
    IN IF isfile(snap, full_path)
         THEN [found |-> TRUE, path |-> full_path, subdir_count |-> 0]
       ELSE IF WalkRaises(snap, filename, hits)
         THEN [found |-> FALSE, path |-> None, subdir_count |-> snap.error.at - 1]
       ELSE IF hits # {}
         THEN [found |-> TRUE, path |-> path_join(w[first].root, filename),
               subdir_count |-> first]
       ELSE [found |-> FALSE, path |-> None, subdir_count |-> Len(w)]

(* ------------------------------- state --------------------------------- *)
VARIABLES
    arg,                \* inputs of the function under test (pure harnesses)
    out,                \* its result
    step,               \* position of the harness
    tracks,             \* Location of every TRACK of the parsed tree
    catalog_file,       \* content of xml_file_path on disk
    backup_file,        \* content of xml_file_path + '.backup', None if absent
    new_root_path,
    fs,                 \* the filesystem snapshot under the new root
    dry_run,
    use_single_thread,
    max_workers,
    pc,                 \* position of the main thread
    files_to_verify,    \* list of (filename, location)
    track_locations,    \* dict filename -> index of a track
    task,               \* one future per submitted item
    collected,          \* futures already yielded by as_completed
    results,            \* verification_results, in insertion order
    calls,              \* number of verify_file_exists invocations per filename
    alarm,              \* TRUE while the SIGALRM timer is armed
    timed_out,          \* the timeout handler has run
    success_count,
    error_count,
    errors_list,
    successful_files,
    ret                 \* the tuple update_rekordbox_xml returned

harness == << arg, out, step >>

pipeline ==
    << tracks, catalog_file, backup_file, new_root_path, fs, dry_run,
       use_single_thread, max_workers, pc, files_to_verify, track_locations,
       task, collected, results, calls, alarm, timed_out, success_count,
       error_count, errors_list, successful_files, ret >>

vars == << harness, pipeline >>

\* the pipeline is not running (pure-function harnesses)
PipelineIdle ==
    /\ tracks = << >> /\ catalog_file = << >> /\ backup_file = None
    /\ new_root_path = << >>
    /\ fs = [files |-> {}, order |-> << >>, error |-> NoError]
    /\ dry_run = FALSE /\ use_single_thread = FALSE /\ max_workers = None
    /\ pc = "idle" /\ files_to_verify = << >> /\ track_locations = << >>
    /\ task = << >> /\ collected = {} /\ results = << >> /\ calls = << >>
    /\ alarm = FALSE /\ timed_out = FALSE
    /\ success_count = 0 /\ error_count = 0
    /\ errors_list = << >> /\ successful_files = << >> /\ ret = None

HarnessIdle == arg = << >> /\ out = << >> /\ step = "idle"

(* --------------------- harness: the location codec --------------------- *)
CodecAlphabet == { "a", " ", "%", "2", "0" }

RECURSIVE StringsUpTo(_)
StringsUpTo(n) ==
    IF n = 0 THEN { << >> }
    ELSE LET shorter == StringsUpTo(n - 1) IN
         shorter \cup { Append(s, c) : s \in shorter, c \in CodecAlphabet }

RootNoSep == << "/", "r" >>

RootSep == << "/", "r", "/" >>

RootSpace == << "/", "m", " ", "x" >>

Roots == { RootNoSep, RootSep }

InitCodec ==
    /\ arg \in [ root : Roots \cup { RootSpace }, filename : StringsUpTo(MaxNameLen) ]
    /\ out = << >>
    /\ step = "start"
    /\ PipelineIdle

Encode ==
    /\ step = "start"
    /\ out' = build_new_location(arg.root, arg.filename)
    /\ step' = "encoded"
    /\ UNCHANGED << arg, pipeline >>

Decode ==
    /\ step = "encoded"
    /\ out' = extract_filename_from_location(out)
    /\ step' = "decoded"
    /\ UNCHANGED << arg, pipeline >>

NextCodec == Encode \/ Decode

SpecCodec == InitCodec /\ [][NextCodec]_vars

(* ------------------- harness: the worker sizing policy ----------------- *)
Overrides == { << n >> : n \in (0 - MaxOverride)..(WorkerCap + MaxOverride) }

InitSizer ==
    /\ arg \in [ max_workers : { None } \cup Overrides,
                 cpu_count : 1..MaxCpu,
                 mem_q : 1..(2 * MemDen) ]
    /\ out = << >>
    /\ step = "start"
    /\ PipelineIdle

ComputeWorkers ==
    /\ step = "start"
    /\ out' = get_optimal_worker_count(arg.max_workers, arg.cpu_count, arg.mem_q)
    /\ step' = "computed"
    /\ UNCHANGED << arg, pipeline >>

NextSizer == ComputeWorkers

SpecSizer == InitSizer /\ [][NextSizer]_vars

(* ----------------------- harness: the file locator --------------------- *)
InitLocate ==
    /\ arg \in [ root : Roots, filename : FsNames \cup { NameZ }, snap : Snapshots ]
    /\ out = << >>
    /\ step = "start"
    /\ PipelineIdle

Locate ==
    /\ step = "start"
    /\ out' = verify_file_exists(arg.root, arg.filename, arg.snap)
    /\ step' = "located"
    /\ UNCHANGED << arg, pipeline >>

NextLocate == Locate

SpecLocate == InitLocate /\ [][NextLocate]_vars

(* --------------------- update_rekordbox_xml: inputs -------------------- *)
\* 'file://localhost/O/a' and 'file://localhost/N/a' name the same file 'a';
\* 'file://localhost/O/b%20c' names 'b c'; 'http://x/a' is another scheme
LocOldA == SchemePrefix \o << "O", "/", "a" >>

LocNewA == SchemePrefix \o << "N", "/", "a" >>

LocOldB == SchemePrefix \o << "O", "/", "b", "%", "2", "0", "c" >>

LocHttp == << "h", "t", "t", "p", ":", "/", "/", "x", "/", "a" >>

\* a TRACK without a Location attribute: track.get('Location') is None
NoLocation == None

CatalogLocations == { LocOldA, LocNewA, LocOldB, LocHttp, NoLocation }

RECURSIVE Catalogs(_)
Catalogs(n) ==
    IF n = 0 THEN { << >> }
    ELSE LET shorter == Catalogs(n - 1) IN
         shorter \cup { Append(c, l) : c \in shorter, l \in CatalogLocations }

\* the snapshots the pipeline is run on: 'a' anywhere, in any combination;
\* 'b c' absent or in the subdirectory S only
PipelineSnapshots ==
    { s \in Snapshots :
        \A f \in s.files : f[Len(f)] = NameB => f = DiskRoot \o << << "S" >>, NameB >> }

\* os.cpu_count() and the memory factor of the machine the pipeline runs on
\* (memory_factor 1.0: psutil not installed)
EnvCpuCount == 1

EnvMemQ == MemDen

\* line 410 without the scheme test: any Location is taken
Eligible_any_location(location) == location # None

\* the test of line 410
Eligible(location) == location # None /\ StartsWith(location, SchemePrefix)

EligibleTracks(ts) == { i \in 1..Len(ts) : Eligible(ts[i]) }

\* 'root', the relative path reported for a file found directly in the root
RootLiteral == << "r", "o", "o", "t" >>

TimeoutMessage == "File verification timed out"

(* ------------------------------ ordered dict --------------------------- *)
Keys(d) == { d[i].key : i \in 1..Len(d) }

Get(d, k) == d[CHOOSE i \in 1..Len(d) : d[i].key = k].value

\* a list of pairs instead of a dict: a repeated key adds an entry
Put_append(d, k, v) == Append(d, [key |-> k, value |-> v])

\* d[k] = v: an existing key keeps its position
Put(d, k, v) ==
    IF k \in Keys(d)
      THEN [ i \in 1..Len(d) |-> IF d[i].key = k THEN [key |-> k, value |-> v] ELSE d[i] ]
      ELSE Append(d, [key |-> k, value |-> v])

(* -------------------------------- Init --------------------------------- *)
Init ==
    /\ HarnessIdle
    /\ tracks \in Catalogs(MaxTracks)
    /\ catalog_file = tracks
    /\ backup_file = None
    /\ new_root_path \in Roots
    /\ fs \in PipelineSnapshots
    /\ dry_run \in BOOLEAN
    /\ use_single_thread \in BOOLEAN
    /\ max_workers \in { None, << 1 >> }
    /\ pc = "parsed"
    /\ files_to_verify = << >>
    /\ track_locations = << >>
    /\ task = << >>
    /\ collected = {}
    /\ results = << >>
    /\ calls = << >>
    /\ alarm = FALSE
    /\ timed_out = FALSE
    /\ success_count = 0
    /\ error_count = 0
    /\ errors_list = << >>
    /\ successful_files = << >>
    /\ ret = None

\* snapshots in which one lookup meets an error: the walk for 'a' or for
\* 'b c' raises when it comes to the first subdirectory
ErrorSnapshots ==
    { [files |-> s.files, order |-> s.order, error |-> [filename |-> n, at |-> 2]] :
        s \in { t \in PipelineSnapshots : (DiskRoot \o << NameA >>) \notin t.files },
        n \in FsNames }

\* the pipeline started on a filesystem where a lookup fails
InitErr ==
    /\ HarnessIdle
    /\ tracks \in Catalogs(MaxTracks)
    /\ catalog_file = tracks
    /\ backup_file = None
    /\ new_root_path \in Roots
    /\ fs \in ErrorSnapshots
    /\ dry_run \in BOOLEAN
    /\ use_single_thread \in BOOLEAN
    /\ max_workers \in { None, << 1 >> }
    /\ pc = "parsed"
    /\ files_to_verify = << >>
    /\ track_locations = << >>
    /\ task = << >>
    /\ collected = {}
    /\ results = << >>
    /\ calls = << >>
    /\ alarm = FALSE
    /\ timed_out = FALSE
    /\ success_count = 0
    /\ error_count = 0
    /\ errors_list = << >>
    /\ successful_files = << >>
    /\ ret = None

(* ------------------- update_rekordbox_xml: collection ------------------ *)
\* the (filename, location) list of lines 406-417, in document order
RECURSIVE CollectFrom(_, _)
CollectFrom(ts, i) ==
    IF i > Len(ts) THEN << >>
    ELSE (IF Eligible(ts[i])
            THEN << [filename |-> extract_filename_from_location(ts[i]),
                     location |-> ts[i]] >>
            ELSE << >>)
         \o CollectFrom(ts, i + 1)

\* track_locations[filename] = track: the last track with that filename wins
TrackLocations(ts) ==
    LET names == { extract_filename_from_location(ts[i]) : i \in EligibleTracks(ts) } IN
    [ f \in names |->
        CHOOSE i \in EligibleTracks(ts) :
            /\ extract_filename_from_location(ts[i]) = f
            /\ \A j \in EligibleTracks(ts) :
                  extract_filename_from_location(ts[j]) = f => j <= i ]

\* lines 398-426: collect the files; return early when there are none
CollectFiles ==
    /\ pc = "parsed"
    /\ files_to_verify' = CollectFrom(tracks, 1)
    /\ track_locations' = TrackLocations(tracks)
    /\ calls' = [ f \in DOMAIN TrackLocations(tracks) |-> 0 ]
    /\ IF files_to_verify' = << >>
         THEN pc' = "done" /\ ret' = << 0, 0, << >> >>
         ELSE pc' = "verify" /\ ret' = ret
    /\ UNCHANGED << harness, tracks, catalog_file, backup_file, new_root_path,
                    fs, dry_run, use_single_thread, max_workers, task,
                    collected, results, alarm, timed_out, success_count,
                    error_count, errors_list, successful_files >>

(* --------------------------- verify_files_batch ------------------------ *)
\* the pool size of line 299
optimal_workers == get_optimal_worker_count(max_workers, EnvCpuCount, EnvMemQ)

\* the (found, found_path) pair a lookup of filename returns
Outcome(filename) ==
    LET r == verify_file_exists(new_root_path, filename, fs) IN
    [found |-> r.found, path |-> r.path]

\* lines 259-263 or 299-323: enter the sequential loop, or arm the alarm and
\* open the pool
StartBatch ==
    /\ pc = "verify"
    /\ IF use_single_thread
         THEN pc' = "sequential" /\ alarm' = alarm
         ELSE pc' = "submit" /\ alarm' = TRUE
    /\ UNCHANGED << harness, tracks, catalog_file, backup_file, new_root_path,
                    fs, dry_run, use_single_thread, max_workers,
                    files_to_verify, track_locations, task, collected,
                    results, calls, timed_out, success_count, error_count,
                    errors_list, successful_files, ret >>

\* lines 269-275: one iteration of the sequential loop
SequentialStep ==
    /\ pc = "sequential"
    /\ Cardinality(collected) < Len(files_to_verify)
    /\ LET i == Cardinality(collected) + 1
           f == files_to_verify[i].filename
       IN /\ calls' = [calls EXCEPT ![f] = @ + 1]
          /\ results' = Put(results, f, Outcome(f))
          /\ collected' = collected \cup { i }
    /\ UNCHANGED << harness, tracks, catalog_file, backup_file, new_root_path,
                    fs, dry_run, use_single_thread, max_workers, pc,
                    files_to_verify, track_locations, task, alarm, timed_out,
                    success_count, error_count, errors_list, successful_files,
                    ret >>

\* lines 292-296: the sequential loop is over
SequentialReturn ==
    /\ pc = "sequential"
    /\ Cardinality(collected) = Len(files_to_verify)
    /\ pc' = "process"
    /\ UNCHANGED << harness, tracks, catalog_file, backup_file, new_root_path,
                    fs, dry_run, use_single_thread, max_workers,
                    files_to_verify, track_locations, task, collected,
                    results, calls, alarm, timed_out, success_count,
                    error_count, errors_list, successful_files, ret >>

\* a future that has no result yet
NoResult == [found |-> FALSE, path |-> None]

\* lines 332-335: executor.submit for the next item of file_list; after the
\* last one the with block ends and shutdown(wait=True) begins
Submit ==
    /\ pc = "submit"
    /\ Len(task) < Len(files_to_verify)
    /\ task' = Append(task, [st |-> "pending", result |-> NoResult])
    /\ pc' = IF Len(task') = Len(files_to_verify) THEN "shutdown" ELSE "submit"
    /\ UNCHANGED << harness, tracks, catalog_file, backup_file, new_root_path,
                    fs, dry_run, use_single_thread, max_workers,
                    files_to_verify, track_locations, collected, results,
                    calls, alarm, timed_out, success_count, error_count,
                    errors_list, successful_files, ret >>

Pending == { i \in 1..Len(task) : task[i].st = "pending" }

Running == { i \in 1..Len(task) : task[i].st = "running" }

Finished == { i \in 1..Len(task) : task[i].st = "done" }

\* a pool thread takes the oldest queued item and calls verify_single_file
\* (lines 309-311); the pool never cancels a queued item
StartTask ==
    /\ Pending # {}
    /\ Cardinality(Running) < optimal_workers
    /\ LET i == CHOOSE k \in Pending : \A j \in Pending : k <= j
           f == files_to_verify[i].filename
       IN /\ task' = [task EXCEPT ![i].st = "running"]
          /\ calls' = [calls EXCEPT ![f] = @ + 1]
    /\ UNCHANGED << harness, tracks, catalog_file, backup_file, new_root_path,
                    fs, dry_run, use_single_thread, max_workers, pc,
                    files_to_verify, track_locations, collected, results,
                    alarm, timed_out, success_count, error_count, errors_list,
                    successful_files, ret >>

\* line 312: a running lookup returns filename, (found, found_path)
FinishTask(i) ==
    /\ i \in Running
    /\ task' = [task EXCEPT ![i] =
                  [st |-> "done", result |-> Outcome(files_to_verify[i].filename)]]
    /\ UNCHANGED << harness, tracks, catalog_file, backup_file, new_root_path,
                    fs, dry_run, use_single_thread, max_workers, pc,
                    files_to_verify, track_locations, collected, results,
                    calls, alarm, timed_out, success_count, error_count,
                    errors_list, successful_files, ret >>

\* end of the with block (line 326): shutdown(wait=True) returns once every
\* submitted item has run
ShutdownDone ==
    /\ pc = "shutdown"
    /\ Finished = 1..Len(task)
    /\ pc' = "collect"
    /\ UNCHANGED << harness, tracks, catalog_file, backup_file, new_root_path,
                    fs, dry_run, use_single_thread, max_workers,
                    files_to_verify, track_locations, task, collected,
                    results, calls, alarm, timed_out, success_count,
                    error_count, errors_list, successful_files, ret >>

\* lines 338-341: as_completed yields a finished future, in no fixed order
Collect(i) ==
    /\ pc = "collect"
    /\ i \in Finished \ collected
    /\ results' = Put(results, files_to_verify[i].filename, task[i].result)
    /\ collected' = collected \cup { i }
    /\ UNCHANGED << harness, tracks, catalog_file, backup_file, new_root_path,
                    fs, dry_run, use_single_thread, max_workers, pc,
                    files_to_verify, track_locations, task, calls, alarm,
                    timed_out, success_count, error_count, errors_list,
                    successful_files, ret >>

\* no finally clause: the alarm stays as it was when the function returns
AlarmAfterFinally_missing == alarm

\* lines 365-367: signal.alarm(0) in the finally clause disarms the alarm
AlarmAfterFinally == FALSE

\* the return statement inside the for loop: the first future ends the batch
AllYielded_first == collected # {}

\* the as_completed loop of line 338 is exhausted
AllYielded == collected = 1..Len(task)

\* lines 359-367: every future was yielded; return results, and the finally
\* clause cancels the alarm
BatchReturn ==
    /\ pc = "collect"
    /\ AllYielded
    /\ alarm' = AlarmAfterFinally
    /\ pc' = "process"
    /\ UNCHANGED << harness, tracks, catalog_file, backup_file, new_root_path,
                    fs, dry_run, use_single_thread, max_workers,
                    files_to_verify, track_locations, task, collected,
                    results, calls, timed_out, success_count, error_count,
                    errors_list, successful_files, ret >>

\* what update_rekordbox_xml returns from its except Exception clause
FailureReturn == << 0, 0, << [kind |-> "unexpected", path |-> TimeoutMessage] >>, << >> >>

\* TimeoutError swallowed inside verify_files_batch, which then returns the
\* outcomes collected so far
RaiseFrom_swallow(p) == "process"

\* where the main thread goes when TimeoutError is raised at position p:
\* raised in the body of the with block, __exit__ first waits for the pool;
\* raised anywhere else in the try, it leaves verify_files_batch at once and
\* is caught by except Exception in update_rekordbox_xml
RaiseFrom(p) == IF p = "submit" THEN "exit_wait" ELSE "done"

\* lines 315-319: SIGALRM is delivered to the main thread while the alarm is
\* armed; the handler raises TimeoutError there
Timeout ==
    /\ alarm
    /\ pc \in { "submit", "shutdown", "collect" }
    /\ timed_out' = TRUE
    /\ alarm' = FALSE
    /\ pc' = RaiseFrom(pc)
    /\ ret' = IF pc' = "done" THEN FailureReturn ELSE ret
    /\ UNCHANGED << harness, tracks, catalog_file, backup_file, new_root_path,
                    fs, dry_run, use_single_thread, max_workers,
                    files_to_verify, track_locations, task, collected,
                    results, calls, success_count, error_count, errors_list,
                    successful_files >>

\* __exit__ of the with block while TimeoutError propagates: once the pool
\* has drained, the finally clause runs and the caller catches the exception
ExitWaitDone ==
    /\ pc = "exit_wait"
    /\ Finished = 1..Len(task)
    /\ pc' = "done"
    /\ ret' = FailureReturn
    /\ UNCHANGED << harness, tracks, catalog_file, backup_file, new_root_path,
                    fs, dry_run, use_single_thread, max_workers,
                    files_to_verify, track_locations, task, collected,
                    results, calls, alarm, timed_out, success_count,
                    error_count, errors_list, successful_files >>

(* ---------------- update_rekordbox_xml: results and save --------------- *)
\* line 468 with the root concatenated to the filename instead of joined
RelativePath_concat(found_path, filename) ==
    IF found_path # new_root_path \o filename
      THEN relpath(found_path, new_root_path)
      ELSE RootLiteral

\* line 468
RelativePath(found_path, filename) ==
    IF found_path # path_join(new_root_path, filename)
      THEN relpath(found_path, new_root_path)
      ELSE RootLiteral

\* the loop with the success bookkeeping moved under 'if not dry_run': a dry
\* run counts nothing as relocated
RECURSIVE ProcessFrom_count_when_written(_, _)
ProcessFrom_count_when_written(k, acc) ==
    IF k > Len(results) THEN acc
    ELSE LET filename == results[k].key
             found == results[k].value.found
             found_path == results[k].value.path
             track == track_locations[filename]
         IN ProcessFrom_count_when_written(k + 1,
              IF found
                THEN IF dry_run THEN acc
                     ELSE [acc EXCEPT
                             !.tracks = [@ EXCEPT ![track] =
                                           build_new_location(new_root_path, filename)],
                             !.success_count = @ + 1,
                             !.successful_files =
                                 Append(@, << filename, RelativePath(found_path, filename) >>)]
                ELSE [acc EXCEPT
                        !.error_count = @ + 1,
                        !.errors_list =
                            Append(@, [kind |-> "not_found",
                                       path |-> path_join(new_root_path, filename)])])

\* the loop of lines 449-481 from entry k of verification_results on; acc
\* carries the tree and the counters
RECURSIVE ProcessFrom(_, _)
ProcessFrom(k, acc) ==
    IF k > Len(results) THEN acc
    ELSE LET filename == results[k].key
             found == results[k].value.found
             found_path == results[k].value.path
             track == track_locations[filename]
         IN ProcessFrom(k + 1,
              IF found
                THEN [acc EXCEPT
                        !.tracks = IF dry_run THEN @
                                   ELSE [@ EXCEPT ![track] =
                                           build_new_location(new_root_path, filename)],
                        !.success_count = @ + 1,
                        !.successful_files =
                            Append(@, << filename, RelativePath(found_path, filename) >>)]
                ELSE [acc EXCEPT
                        !.error_count = @ + 1,
                        !.errors_list =
                            Append(@, [kind |-> "not_found",
                                       path |-> path_join(new_root_path, filename)])])

\* lines 448-484 and 504-507: apply the results to the tree; without
\* anything to save, return
ProcessResults ==
    /\ pc = "process"
    /\ LET r == ProcessFrom(1, [tracks |-> tracks,
                                success_count |-> success_count,
                                error_count |-> error_count,
                                errors_list |-> errors_list,
                                successful_files |-> successful_files])
       IN /\ tracks' = r.tracks
          /\ success_count' = r.success_count
          /\ error_count' = r.error_count
          /\ errors_list' = r.errors_list
          /\ successful_files' = r.successful_files
          /\ IF ~dry_run /\ r.success_count > 0
               THEN pc' = "backup" /\ ret' = ret
               ELSE /\ pc' = "done"
                    /\ ret' = << r.success_count, r.error_count,
                                 r.errors_list, r.successful_files >>
    /\ UNCHANGED << harness, catalog_file, backup_file, new_root_path, fs,
                    dry_run, use_single_thread, max_workers, files_to_verify,
                    track_locations, task, collected, results, calls, alarm,
                    timed_out >>

\* lines 488-495: tree.write(backup_path)
WriteBackup ==
    /\ pc = "backup"
    /\ backup_file' = << tracks >>
    /\ pc' = "write"
    /\ UNCHANGED << harness, tracks, catalog_file, new_root_path, fs, dry_run,
                    use_single_thread, max_workers, files_to_verify,
                    track_locations, task, collected, results, calls, alarm,
                    timed_out, success_count, error_count, errors_list,
                    successful_files, ret >>

\* lines 497-507: tree.write(xml_file_path), then return
WriteCatalog ==
    /\ pc = "write"
    /\ catalog_file' = tracks
    /\ pc' = "done"
    /\ ret' = << success_count, error_count, errors_list, successful_files >>
    /\ UNCHANGED << harness, tracks, backup_file, new_root_path, fs, dry_run,
                    use_single_thread, max_workers, files_to_verify,
                    track_locations, task, collected, results, calls, alarm,
                    timed_out, success_count, error_count, errors_list,
                    successful_files >>

Next ==
    \/ CollectFiles
    \/ StartBatch
    \/ SequentialStep
    \/ SequentialReturn
    \/ Submit
    \/ StartTask
    \/ \E i \in 1..Len(task) : FinishTask(i)
    \/ ShutdownDone
    \/ \E i \in 1..Len(task) : Collect(i)
    \/ BatchReturn
    \/ Timeout
    \/ ExitWaitDone
    \/ ProcessResults
    \/ WriteBackup
    \/ WriteCatalog

Spec == Init /\ [][Next]_vars

SpecErr == InitErr /\ [][Next]_vars

(* ------------------------ claims: pure functions ----------------------- *)
\* C6: get_optimal_worker_count returns a value within [1, 64] for every
\* override, and without an override a value within
\* [max(2, cpu), min(32, 4*cpu)] for every CPU count >= 1 and every memory
\* factor in (0, 2.0].
C6_WorkersWithinBounds ==
    step = "computed" =>
        IF arg.max_workers # None
          THEN out \in 1..WorkerCap
          ELSE /\ out >= Max(2, arg.cpu_count)
               /\ out <= Min(HardMaxWorkers, 4 * arg.cpu_count)

\* C7: when the file exists directly under the root, verify_file_exists
\* returns found with the path root/filename and never starts the walk, even
\* if the same name also exists in subdirectories.
C7_DirectLookupShortCircuits ==
    (step = "located" /\ (DiskRoot \o << arg.filename >>) \in arg.snap.files) =>
        /\ out.found
        /\ out.path = RootSep \o arg.filename
        /\ out.subdir_count = 0

C7_Witness ==
    /\ step = "located"
    /\ arg.root = RootNoSep
    /\ arg.filename = NameB
    /\ { DiskRoot \o << NameB >>, DiskRoot \o << << "S" >>, NameB >>,
         DiskRoot \o << << "T" >>, NameB >> } \subseteq arg.snap.files
    /\ out.found

\* C8: decoding the location built from a root and a filename gives the
\* filename back, for every filename (a path segment: no separator in it),
\* with spaces, '%' and text that looks like an escape, and for roots with
\* and without a trailing separator.
C8_RoundTrip == step = "decoded" => out = arg.filename

C8_Witness ==
    /\ step = "decoded"
    /\ arg.root = RootNoSep
    /\ arg.filename = << "%", "2", "0" >>
    /\ out = << "%", "2", "0" >>

(* --------------------------- claims: pipeline -------------------------- *)
FileNamesToVerify == { files_to_verify[i].filename : i \in 1..Len(files_to_verify) }

\* update_rekordbox_xml returned from its normal path (line 507)
ReturnedNormally == pc = "done" /\ ~timed_out /\ files_to_verify # << >>

\* verify_files_batch returned its map to update_rekordbox_xml
BatchReturned == pc \in { "process", "backup", "write" } \/ ReturnedNormally

\* C1: every eligible record gets exactly one result, Relocated or Missing,
\* and records sharing a filename share the outcome: after a normal run the
\* results count every eligible record, and every eligible record whose file
\* was found has its Location rewritten.
C1_EveryRecordHasOneResult ==
    ReturnedNormally =>
        /\ success_count + error_count = Cardinality(EligibleTracks(tracks))
        /\ ~dry_run =>
             \A i \in EligibleTracks(tracks) :
                LET f == extract_filename_from_location(catalog_file[i]) IN
                Outcome(f).found => tracks[i] = build_new_location(new_root_path, f)

\* C2: verify_file_exists is invoked at most once per distinct filename, in
\* sequential and in concurrent mode.
C2_SearchOncePerFilename == \A f \in DOMAIN calls : calls[f] <= 1

\* C3: the map verify_files_batch returns holds exactly one outcome per
\* distinct input filename, the outcome of looking that filename up in the
\* snapshot, whatever the duplicates, the completion order and the mode
\* (so the concurrent and the sequential map are the same map).
C3_OneOutcomePerFilename ==
    BatchReturned =>
        /\ Keys(results) = FileNamesToVerify
        /\ Len(results) = Cardinality(FileNamesToVerify)
        /\ \A f \in FileNamesToVerify : Get(results, f) = Outcome(f)

C3_Witness ==
    /\ pc = "process"
    /\ ~use_single_thread
    /\ Len(files_to_verify) = 2
    /\ collected = { 1, 2 }
    /\ Len(results) = 1
    /\ results[1].value.found

\* C4: once the timeout has fired, nothing collected so far is used: no
\* record is counted Relocated or Missing, no Location is rewritten, nothing
\* is written, and the caller gets zero counts and the single batch failure.
C4_TimeoutIsWholeBatchFailure ==
    timed_out =>
        /\ tracks = catalog_file
        /\ backup_file = None
        /\ success_count = 0 /\ error_count = 0
        /\ errors_list = << >> /\ successful_files = << >>
        /\ pc \in { "exit_wait", "done" }
        /\ pc = "done" =>
             /\ Len(ret) = 4
             /\ ret[1] = 0 /\ ret[2] = 0 /\ ret[4] = << >>
             /\ Len(ret[3]) = 1 /\ ret[3][1].kind = "unexpected"

C4_Witness ==
    /\ timed_out
    /\ pc = "done"
    /\ ~dry_run
    /\ \E k \in 1..Len(results) : results[k].value.found

\* C5: once the timeout has fired, no lookup that had not yet started begins
\* executing.
C5_NoDispatchAfterTimeout ==
    [][ timed_out => \A i \in Pending : task'[i].st = "pending" ]_vars

\* the subdirectories holding filename, in scan order
HoldersOf(filename) ==
    { i \in 1..Len(fs.order) : (DiskRoot \o << fs.order[i], filename >>) \in fs.files }

\* C9 as stated: "root" for a file directly under the root, and the name of
\* the subdirectory for a file found only in a subdirectory.
C9_RelativePathIsDirectory ==
    \A k \in 1..Len(successful_files) :
       LET f == successful_files[k][1]
           rp == successful_files[k][2]
       IN IF (DiskRoot \o << f >>) \in fs.files
            THEN rp = RootLiteral
            ELSE \E i \in HoldersOf(f) : rp = fs.order[i]

\* C9 as amended: "root" for a file directly under the root, and otherwise
\* the path of the match relative to the root, filename included
\* (Subdir/filename), the match being in the first subdirectory in scan
\* order that holds the file; with or without a trailing separator.
C9_RelativePathOfMatch ==
    \A k \in 1..Len(successful_files) :
       LET f == successful_files[k][1]
           rp == successful_files[k][2]
       IN IF (DiskRoot \o << f >>) \in fs.files
            THEN rp = RootLiteral
            ELSE /\ HoldersOf(f) # {}
                 /\ LET i == CHOOSE h \in HoldersOf(f) : \A j \in HoldersOf(f) : h <= j
                    IN rp = fs.order[i] \o << "/" >> \o f

C9_Witness ==
    /\ pc = "done"
    /\ new_root_path = RootNoSep
    /\ Len(successful_files) = 2
    /\ successful_files[1] = << NameA, RootLiteral >>
    /\ successful_files[2] = << NameB, << "S", "/", "b", " ", "c" >> >>

\* C10: while the backup or the catalog is being written, and once a backup
\* exists, the batch is complete: no lookup is queued or running, every
\* filename has its outcome, and the timeout has not fired.
C10_WriteAfterBatch ==
    (pc \in { "backup", "write" } \/ backup_file # None) =>
        /\ Pending = {} /\ Running = {}
        /\ Keys(results) = FileNamesToVerify
        /\ ~timed_out

C10_Witness ==
    /\ pc = "write"
    /\ ~use_single_thread
    /\ Len(task) = 2
    /\ Len(results) = 2
    /\ backup_file # None

\* the snapshot without its error
WithoutError(snap) == [snap EXCEPT !.error = NoError]

\* the lookup of filename meets the error of the snapshot: the file is not
\* directly under the root and the walk raises before any directory holding it
MeetsError(filename) ==
    /\ fs.error.filename = filename
    /\ fs.error.at >= 1
    /\ (DiskRoot \o << filename >>) \notin fs.files
    /\ \A i \in HoldersOf(filename) : fs.error.at <= i + 1

\* C11: an error during the lookup of one filename is not found for that
\* filename only: the batch still returns, the failing filename is in the
\* map as not found and is reported missing when the run ends, and every
\* other filename has the outcome it has on the error-free snapshot.
C11_ItemErrorIsMissing ==
    /\ BatchReturned =>
         \A f \in FileNamesToVerify :
            IF MeetsError(f)
              THEN ~Get(results, f).found
              ELSE LET r == verify_file_exists(new_root_path, f, WithoutError(fs))
                   IN Get(results, f) = [found |-> r.found, path |-> r.path]
    /\ (pc = "done" /\ ~timed_out) =>
         \A f \in FileNamesToVerify :
            MeetsError(f) =>
               /\ Len(ret) = 4
               /\ \E k \in 1..Len(ret[3]) :
                     /\ ret[3][k].kind = "not_found"
                     /\ ret[3][k].path = RootSep \o f

C11_Witness ==
    /\ pc = "done"
    /\ ~timed_out
    /\ ~use_single_thread
    /\ fs.error.filename = NameA
    /\ (DiskRoot \o << << "S" >>, NameA >>) \in fs.files
    /\ FileNamesToVerify = { NameA, NameB }
    /\ ~Get(results, NameA).found
    /\ Get(results, NameB).found

\* the filenames the snapshot lookup finds, and those it does not
FoundNames == { f \in FileNamesToVerify : Outcome(f).found }

MissingNames == FileNamesToVerify \ FoundNames

\* C12: a dry run changes no Location in the tree and writes neither the
\* catalog nor a backup, and the counts of a run, dry or not, are those of
\* the lookups alone (so a dry run reports what the real run reports).
C12_DryRunChangesNothing ==
    [][ /\ dry_run => /\ tracks' = tracks
                      /\ catalog_file' = catalog_file
                      /\ backup_file' = backup_file
        /\ (pc' = "done" /\ ~timed_out' /\ files_to_verify' # << >>) =>
              /\ Len(ret') = 4
              /\ ret'[1] = Cardinality(FoundNames)
              /\ ret'[2] = Cardinality(MissingNames) ]_vars

C12_Witness ==
    /\ dry_run
    /\ ReturnedNormally
    /\ success_count = 1
    /\ error_count = 1
    /\ tracks = catalog_file
    /\ backup_file = None

\* C13: the backup holds the catalog as it was before any Location was
\* updated: once the backup is written and the catalog is about to be
\* overwritten, the backup equals the catalog file still on disk.
C13_BackupIsOriginal ==
    pc = "write" => backup_file = << catalog_file >>

\* C14: a sequential batch runs under the batch deadline as a concurrent
\* one does: while either kind of batch is running and the timeout has not
\* fired, the alarm is armed.
C14_SequentialUnderDeadline ==
    (pc \in { "sequential", "submit", "shutdown", "collect" } /\ ~timed_out) => alarm

\* C15: in a concurrent batch no entry of the result map is written twice:
\* whenever the result of a task is stored, its filename has no entry yet.
C15_DisjointWrites ==
    [][ (~use_single_thread /\ collected' # collected) =>
           \A i \in collected' \ collected :
              files_to_verify[i].filename \notin Keys(results) ]_vars

\* C16: a Location changes, in the tree and in the written catalog, only
\* for a record that starts with the scheme prefix and whose filename was
\* found; records of another scheme or without Location and records whose
\* file is missing keep their Location, and no result counts more records
\* than there are records with the prefix.
C16_OnlyFoundEligibleChange ==
    [][ /\ \A i \in 1..Len(tracks) :
             (tracks'[i] # tracks[i] \/ catalog_file'[i] # catalog_file[i]) =>
                /\ StartsWith(catalog_file[i], SchemePrefix)
                /\ Outcome(extract_filename_from_location(catalog_file[i])).found
        /\ success_count' + error_count'
             <= Cardinality({ i \in 1..Len(tracks) : StartsWith(tracks[i], SchemePrefix) }) ]_vars

C16_Witness ==
    /\ pc = "done"
    /\ Len(catalog_file) = 2
    /\ catalog_file[1] = LocHttp
    /\ catalog_file[2] = build_new_location(new_root_path, NameA)
    /\ tracks = catalog_file
    /\ success_count = 1
    /\ error_count = 0

\* C17: every exit of update_rekordbox_xml returns the four values main
\* unpacks.
C17_ReturnsFourValues == pc = "done" => Len(ret) = 4

\* C18: after verify_files_batch has exited, by return or by exception, the
\* alarm is not armed, so the handler cannot run during the update of the
\* records, the backup or the catalog write.
C18_AlarmDisarmedAfterBatch ==
    pc \in { "process", "backup", "write", "done" } => ~alarm

C18_Witness ==
    /\ pc = "backup"
    /\ ~use_single_thread
    /\ ~timed_out
    /\ ~alarm
    /\ Len(task) = 2

====
